---- MODULE Spec2Model ----
(***************************************************************************)
(* Model of the Bubble simulation (src/bubble.py, src/simulation.py).      *)
(*                                                                         *)
(* Floating point is modelled in fixed point, one scale per quantity:      *)
(*   length (position, radius, borders) : 1 unit = 0.01                    *)
(*   time (time.time())                 : 1 unit = 0.1 s                   *)
(*   speed                              : 1 unit = 0.1 per second          *)
(*   weight                             : 1 unit = 0.1                     *)
(*   energy, resistance                 : 1 unit = 0.0001                  *)
(* so that dt * speed is a length without rescaling.  A float division is  *)
(* a division rounded to the nearest unit (RoundDiv).  A float NaN         *)
(* (numpy's 0/0 in Bubble.split) is the flag posNaN of a body: every       *)
(* comparison with NaN is false and every sum with NaN is NaN.             *)
(*                                                                         *)
(* One run of Simulation.on_timer is a sequence of steps, pc naming the    *)
(* position of the callback:                                               *)
(*   idle -> update -> (scan -> (collide -> (debit ->)))* move -> update   *)
(*        ... -> split ... -> idle                                         *)
(* The clock has the resolution of the time unit: one run of on_timer is   *)
(* shorter than that, so the clock advances between timer events only.     *)
(***************************************************************************)
EXTENDS Integers, Sequences, FiniteSets, TLC

VARIABLES
    bubbles,      \* Simulation.bubbles: sequence of Bubble objects
    new_bubbles,  \* on_timer's local list new_bubbles
    n,            \* Simulation.n
    mode,         \* Simulation.mode, handed to every Bubble
    clock,        \* the value time.time() returns, relative to start
    pc,           \* position of on_timer
    i,            \* index of b in the for loops of on_timer
    j,            \* index of other in the for loop of update_pos
    k,            \* iteration (1 or 2) of the for loop of handle_collision
    now,          \* update_pos's local now
    new_position  \* update_pos's local new_position

vars == <<bubbles, new_bubbles, n, mode, clock, pc, i, j, k, now, new_position>>

-----------------------------------------------------------------------------
(* Bounds of the model *)

\* number of bubbles Simulation.init_pos creates
InitialCount == 2
\* the clock stops here: no timer event later than this
MaxClock == 8
\* longest time between two timer events
MaxDt == 6

(* Program constants, in the model's units *)

density == 7874
min_radius == 3
max_speed == 10
BorderLow == 0
BorderHigh == 100
\* the 0.5 s of the split condition
SplitDelay == 5

borders_max == <<BorderHigh, BorderHigh>>
borders_min == <<BorderLow, BorderLow>>

Modes == {"split", "overlap", "bounce"}

\* the radii, positions and speeds Bubble is constructed with: radii of
\* np.arange(min_radius, max_radius, min_radius), the centre of the field
\* for every bubble as in init_pos or, for the first one, a place within
\* reach of the centre, and speeds within max_speed
InitRadii == {6, 12}
InitPositions(x) == IF x = 1 THEN {<<50, 50>>, <<30, 50>>} ELSE {<<50, 50>>}
InitSpeeds == {<<5, 0>>, <<0, 0>>, <<-5, 7>>}

-----------------------------------------------------------------------------
(* Arithmetic *)

\* a / b rounded to the nearest integer, b > 0
RoundDiv(a, b) == (2 * a + b) \div (2 * b)

Dot(u, v) == u[1] * v[1] + u[2] * v[2]
VSub(u, v) == <<u[1] - v[1], u[2] - v[2]>>
VAdd(u, v) == <<u[1] + v[1], u[2] + v[2]>>
VScale(c, v) == <<c * v[1], c * v[2]>>

\* np.linalg.norm(v) ** 2
Norm2(v) == Dot(v, v)

Abs(x) == IF x < 0 THEN -x ELSE x

\* np.linalg.norm(v), in hundredths of the unit of v, rounded down
Norm100(v) ==
    CHOOSE s \in 0..(100 * (Abs(v[1]) + Abs(v[2]))) :
        s * s <= 10000 * Norm2(v) /\ 10000 * Norm2(v) < (s + 1) * (s + 1)

ClipC(x, lo, hi) == IF x < lo THEN lo ELSE IF x > hi THEN hi ELSE x
\* np.clip(v, lo, hi)
Clip(v, lo, hi) == <<ClipC(v[1], lo, hi), ClipC(v[2], lo, hi)>>

-----------------------------------------------------------------------------
(* Bubble *)

\* Bubble.set_weight: density * 3.14 * radius ** 2
set_weight(radius) == (density * 314 * radius * radius) \div 100000

\* Bubble.set_resistance: 0.005 * density * radius
set_resistance(radius) == (5 * density * radius) \div 10

\* Bubble.set_resistance: energy = 10 * resistance
set_energy(resistance) == 10 * resistance

\* Bubble.__init__ at time t; id is the identity of the new object
Bubble(id, radius, position, posNaN, speed, t) ==
    [id |-> id,
     radius |-> radius,
     position |-> position,
     posNaN |-> posNaN,
     speed |-> speed,
     t0 |-> t,
     t |-> t,
     last_split_time |-> t,
     to_split |-> FALSE,
     weight |-> set_weight(radius),
     resistance |-> set_resistance(radius),
     energy |-> set_energy(set_resistance(radius)),
     remaining_energy |-> set_energy(set_resistance(radius))]

\* faulty variant: the lower border is not tested
hits_border_max_only(c, radius, axis) ==
    c[axis] + radius >= borders_max[axis]

\* the border test of update_pos on one axis, for the candidate position c
hits_border(c, radius, axis) ==
    \/ c[axis] + radius >= borders_max[axis]
    \/ c[axis] - radius <= borders_min[axis]

\* update_pos, lines 81-89: the speed after the border checks
reflect(b, cand) ==
    IF b.posNaN THEN b.speed
    ELSE <<IF hits_border(cand, b.radius, 1) THEN -b.speed[1] ELSE b.speed[1],
           IF hits_border(cand, b.radius, 2) THEN -b.speed[2] ELSE b.speed[2]>>

\* faulty variant: the scan runs in every mode
detector_always(m) == TRUE

\* update_pos, line 92: the collision scan runs
detector_enabled(m) == m /= "overlap"

\* update_pos, lines 94-96: other is another object and within reach
in_contact(a, b) ==
    /\ a.id /= b.id
    /\ ~a.posNaN
    /\ ~b.posNaN
    /\ Norm2(VSub(a.position, b.position))
          <= (a.radius + b.radius) * (a.radius + b.radius)

(* handle_collision(self = a, other = b) *)

relative_velocity(a, b) == VSub(a.speed, b.speed)
separation(a, b) == VSub(a.position, b.position)

\* line 117: np.dot(relative_velocity, normal_vector) < 0, the normal being
\* separation / distance, or zero when the distance is zero
approaching(a, b) ==
    IF Norm2(separation(a, b)) > 0
    THEN Dot(relative_velocity(a, b), separation(a, b)) < 0
    ELSE FALSE

\* (2 * m / (m1 + m2)) * dot(relative_velocity, normal) * normal
impulse(a, b, m) ==
    LET d == separation(a, b)
        num == 2 * m * Dot(relative_velocity(a, b), d)
        den == (a.weight + b.weight) * Norm2(d)
    IN <<RoundDiv(num * d[1], den), RoundDiv(num * d[2], den)>>

\* lines 124, 126
new_speed_a(a, b) ==
    Clip(VSub(a.speed, impulse(a, b, b.weight)), -max_speed, max_speed)
\* lines 125, 127
new_speed_b(a, b) ==
    Clip(VAdd(b.speed, impulse(a, b, a.weight)), -max_speed, max_speed)

\* line 132: 0.5 * m1 * (v1**2 - norm(new_speed_a)**2)
e_transferred_a_b(a, b) ==
    5 * a.weight * (Norm2(a.speed) - Norm2(new_speed_a(a, b)))
\* line 133
e_transferred_b_a(a, b) ==
    5 * b.weight * (Norm2(b.speed) - Norm2(new_speed_b(a, b)))

\* faulty variant: the remaining energy is compared with the energy of b
should_split_below_energy(b, remaining, t) ==
    /\ b.radius > min_radius
    /\ remaining < b.energy
    /\ t - b.t0 > SplitDelay
    /\ t - b.last_split_time > SplitDelay

\* lines 139-144: the condition under which b is armed, remaining being
\* self.remaining_energy after the debit
should_split(b, remaining, t) ==
    /\ b.radius > min_radius
    /\ remaining < b.resistance
    /\ t - b.t0 > SplitDelay
    /\ t - b.last_split_time > SplitDelay

\* faulty variant: each bubble of the loop pays its own term
debit_loop_bubble(self, b) == b

\* line 138: the index of the bubble whose remaining_energy is decremented,
\* self being the index of self and b that of the loop's bubble
debit_target(self, b) == self

(* split *)

\* line 159
new_radius(radius) == RoundDiv(radius * 10000, 14142)
\* line 160
rotate_45_up(v) ==
    <<RoundDiv(7071 * (v[1] - v[2]), 10000), RoundDiv(7071 * (v[1] + v[2]), 10000)>>
\* line 161
rotate_45_down(v) ==
    <<RoundDiv(7071 * (v[1] + v[2]), 10000), RoundDiv(7071 * (v[2] - v[1]), 10000)>>
\* line 164
perp_vector(v) == <<v[2], -v[1]>>
\* line 167: 0/0 is NaN
offset_is_nan(v) == Norm2(v) = 0
offset(v, radius) ==
    IF offset_is_nan(v) THEN <<0, 0>>
    ELSE <<RoundDiv(perp_vector(v)[1] * new_radius(radius) * 100, Norm100(v)),
           RoundDiv(perp_vector(v)[2] * new_radius(radius) * 100, Norm100(v))>>

\* lines 170-179: the bubble split returns
split_new(b, id, t) ==
    Bubble(id,
           new_radius(b.radius),
           IF b.posNaN \/ offset_is_nan(b.speed) THEN b.position
           ELSE VAdd(b.position, offset(b.speed, b.radius)),
           b.posNaN \/ offset_is_nan(b.speed),
           rotate_45_up(b.speed),
           t)

\* lines 156, 182-187: self after the updates of split
split_update(b, t) ==
    [b EXCEPT
       !.last_split_time = t,
       !.radius = new_radius(b.radius),
       !.position = IF b.posNaN \/ offset_is_nan(b.speed) THEN b.position
                    ELSE VSub(b.position, offset(b.speed, b.radius)),
       !.posNaN = b.posNaN \/ offset_is_nan(b.speed),
       !.speed = rotate_45_down(b.speed),
       !.weight = set_weight(new_radius(b.radius)),
       !.resistance = set_resistance(new_radius(b.radius)),
       !.energy = set_energy(set_resistance(new_radius(b.radius))),
       !.remaining_energy = set_energy(set_resistance(new_radius(b.radius)))]

\* faulty variant: split leaves the flag set
split_self_keeps_flag(b, t) == split_update(b, t)

\* faulty variant: split does not call set_weight
split_self_stale_weight(b, t) ==
    [split_update(b, t) EXCEPT !.to_split = FALSE, !.weight = b.weight]

\* lines 156, 182-190: self after split
split_self(b, t) == [split_update(b, t) EXCEPT !.to_split = FALSE]

\* faulty variant: the new bubbles are not added
extend_nothing(live, fresh) == live

\* on_timer, line 90
extend(live, fresh) == live \o fresh

-----------------------------------------------------------------------------
(* The state machine *)

Init ==
    /\ mode \in Modes
    /\ clock = 0
    /\ \E r \in [1..InitialCount -> InitRadii] :
       \E p \in InitPositions(1) :
       \E s \in [1..InitialCount -> InitSpeeds] :
          bubbles = [x \in 1..InitialCount |->
                       Bubble(x, r[x], IF x = 1 THEN p ELSE CHOOSE q \in InitPositions(x) : TRUE,
                              FALSE, s[x], 0)]
    /\ new_bubbles = <<>>
    /\ n = InitialCount
    /\ pc = "idle"
    /\ i = 0
    /\ j = 0
    /\ k = 0
    /\ now = 0
    /\ new_position = <<0, 0>>

\* the timer fires d time units after the previous event: on_timer, lines 80-82
TimerFire ==
    /\ pc = "idle"
    /\ \E d \in 1..MaxDt :
          /\ clock + d <= MaxClock
          /\ clock' = clock + d
    /\ new_bubbles' = <<>>
    /\ pc' = "update"
    /\ i' = 1
    /\ UNCHANGED <<bubbles, n, mode, j, k, now, new_position>>

\* update_pos of bubbles[i], lines 74-92
UpdateBegin ==
    /\ pc = "update"
    /\ i <= Len(bubbles)
    /\ LET b == bubbles[i]
           dt == clock - b.t
           cand == VAdd(b.position, VScale(dt, b.speed))
       IN /\ now' = clock
          /\ new_position' = cand
          /\ bubbles' = [bubbles EXCEPT ![i].speed = reflect(b, cand)]
    /\ IF detector_enabled(mode)
       THEN pc' = "scan" /\ j' = 1
       ELSE pc' = "move" /\ j' = j
    /\ UNCHANGED <<new_bubbles, n, mode, clock, i, k>>

\* one iteration of the for loop of update_pos, lines 93-98
ScanStep ==
    /\ pc = "scan"
    /\ j <= Len(bubbles)
    /\ IF in_contact(bubbles[i], bubbles[j])
       THEN pc' = "collide" /\ j' = j
       ELSE pc' = "scan" /\ j' = j + 1
    /\ UNCHANGED <<bubbles, new_bubbles, n, mode, clock, i, k, now, new_position>>

\* the for loop of update_pos is over
ScanEnd ==
    /\ pc = "scan"
    /\ j > Len(bubbles)
    /\ pc' = "move"
    /\ UNCHANGED <<bubbles, new_bubbles, n, mode, clock, i, j, k, now, new_position>>

\* handle_collision(bubbles[i], bubbles[j]), lines 110-130 and 148-149
HandleCollision ==
    /\ pc = "collide"
    /\ LET a == bubbles[i]
           b == bubbles[j]
       IN IF approaching(a, b)
          THEN IF mode = "split"
               THEN /\ pc' = "debit"
                    /\ k' = 1
                    /\ UNCHANGED <<bubbles, j>>
               ELSE /\ bubbles' = [bubbles EXCEPT ![i].speed = new_speed_a(a, b),
                                                  ![j].speed = new_speed_b(a, b)]
                    /\ pc' = "scan"
                    /\ j' = j + 1
                    /\ k' = k
          ELSE /\ pc' = "scan"
               /\ j' = j + 1
               /\ UNCHANGED <<bubbles, k>>
    /\ UNCHANGED <<new_bubbles, n, mode, clock, i, now, new_position>>

\* iteration k of the for loop of handle_collision, lines 137-145; after the
\* second one, lines 148-149
Debit ==
    /\ pc = "debit"
    /\ LET a == bubbles[i]
           b == bubbles[j]
           bi == IF k = 1 THEN i ELSE j
           e == IF k = 1 THEN e_transferred_b_a(a, b) ELSE e_transferred_a_b(a, b)
           tgt == debit_target(i, bi)
           debited == [bubbles EXCEPT ![tgt].remaining_energy = @ - e]
           armed == IF should_split(debited[bi], debited[i].remaining_energy, clock)
                    THEN [debited EXCEPT ![bi].to_split = TRUE]
                    ELSE debited
       IN IF k = 1
          THEN /\ bubbles' = armed
               /\ k' = 2
               /\ UNCHANGED <<pc, j>>
          ELSE /\ bubbles' = [armed EXCEPT ![i].speed = new_speed_a(a, b),
                                           ![j].speed = new_speed_b(a, b)]
               /\ k' = 0
               /\ pc' = "scan"
               /\ j' = j + 1
    /\ UNCHANGED <<new_bubbles, n, mode, clock, i, now, new_position>>

\* update_pos, lines 101-102
Move ==
    /\ pc = "move"
    /\ LET b == bubbles[i]
           dt == now - b.t
       IN bubbles' = [bubbles EXCEPT
                        ![i].position = IF b.posNaN THEN b.position
                                        ELSE VAdd(b.position, VScale(dt, b.speed)),
                        ![i].t = now]
    /\ pc' = "update"
    /\ i' = i + 1
    /\ j' = 0
    /\ now' = 0
    /\ new_position' = <<0, 0>>
    /\ UNCHANGED <<new_bubbles, n, mode, clock, k>>

\* the first for loop of on_timer is over, line 84
UpdateEnd ==
    /\ pc = "update"
    /\ i > Len(bubbles)
    /\ pc' = "split"
    /\ i' = 1
    /\ UNCHANGED <<bubbles, new_bubbles, n, mode, clock, j, k, now, new_position>>

\* faulty variant: the new bubble joins the live collection at once
SplitStep_AppendsLive ==
    /\ pc = "split"
    /\ i <= Len(bubbles)
    /\ IF bubbles[i].to_split
       THEN /\ bubbles' = Append([bubbles EXCEPT ![i] = split_self(bubbles[i], clock)],
                                 split_new(bubbles[i], n + 1, clock))
            /\ n' = n + 1
       ELSE UNCHANGED <<bubbles, n>>
    /\ i' = i + 1
    /\ UNCHANGED <<new_bubbles, mode, clock, pc, j, k, now, new_position>>

\* one iteration of the second for loop of on_timer, lines 84-88
SplitStep ==
    /\ pc = "split"
    /\ i <= Len(bubbles)
    /\ IF bubbles[i].to_split
       THEN /\ bubbles' = [bubbles EXCEPT ![i] = split_self(bubbles[i], clock)]
            /\ new_bubbles' = Append(new_bubbles, split_new(bubbles[i], n + 1, clock))
            /\ n' = n + 1
       ELSE UNCHANGED <<bubbles, new_bubbles, n>>
    /\ i' = i + 1
    /\ UNCHANGED <<mode, clock, pc, j, k, now, new_position>>

\* on_timer, line 90
Extend ==
    /\ pc = "split"
    /\ i > Len(bubbles)
    /\ bubbles' = extend(bubbles, new_bubbles)
    /\ new_bubbles' = <<>>
    /\ pc' = "idle"
    /\ i' = 0
    /\ UNCHANGED <<n, mode, clock, j, k, now, new_position>>

Next ==
    \/ TimerFire
    \/ UpdateBegin
    \/ ScanStep
    \/ ScanEnd
    \/ HandleCollision
    \/ Debit
    \/ Move
    \/ UpdateEnd
    \/ SplitStep
    \/ Extend

Spec == Init /\ [][Next]_vars

-----------------------------------------------------------------------------
(* Properties *)

Live == 1..Len(bubbles)
Buffered == 1..Len(new_bubbles)

\* a step performs a split: the flag of an armed bubble is consumed
SplitPerformed ==
    \E x \in Live : bubbles[x].to_split /\ ~bubbles'[x].to_split

\* C1: Across any run of timer events, the live collection holds the initial
\* bubbles plus one bubble per split performed: no step removes a bubble or
\* moves it to another index, each split adds exactly one bubble (and counts
\* it in n), and between timer events the collection has n bubbles.
C1_PopulationGrowsBySplits ==
    [][ /\ Len(bubbles') >= Len(bubbles)
        /\ \A x \in Live : bubbles'[x].id = bubbles[x].id
        /\ Len(bubbles') + Len(new_bubbles')
              = Len(bubbles) + Len(new_bubbles) + (IF SplitPerformed THEN 1 ELSE 0)
        /\ n' = n + (IF SplitPerformed THEN 1 ELSE 0)
        /\ (pc' = "idle" => Len(bubbles') = n')
        /\ \A x, y \in 1..Len(bubbles') : x /= y => bubbles'[x].id /= bubbles'[y].id
      ]_vars

\* a timer event with a split in it is over
C1_Witness ==
    /\ pc = "idle"
    /\ n > InitialCount
    /\ Len(bubbles) = n

\* C2: to_split is set for at most one timer event: every bubble the split
\* pass has gone past is unarmed, the bubbles split returns are unarmed, and
\* between timer events and at the start of the update pass no live bubble
\* is armed.
C2_ArmedWithinOneTick ==
    /\ (pc = "idle" \/ (pc = "update" /\ i = 1))
          => \A x \in Live : ~bubbles[x].to_split
    /\ pc = "split" => \A x \in Live : x < i => ~bubbles[x].to_split
    /\ \A y \in Buffered : ~new_bubbles[y].to_split

\* the split pass has just split a bubble that the update pass armed
C2_Witness ==
    /\ pc = "split"
    /\ i > 1
    /\ Len(new_bubbles) > 0
    /\ bubbles[i - 1].last_split_time = clock
    /\ ~bubbles[i - 1].to_split

\* C3: Within a timer event every live bubble is updated before any split
\* is performed, the bubbles split returns wait in new_bubbles, untouched,
\* and join the live collection only when the split pass is over; so the
\* collection the collision scan reads is the same for every update of the
\* event.
C3_UpdateThenSplitThenAppend ==
    [][ /\ SplitPerformed =>
              /\ pc = "split"
              /\ \A x \in Live : bubbles[x].t = clock
        /\ pc \in {"update", "scan", "collide", "debit", "move"} =>
              /\ new_bubbles = <<>>
              /\ Len(bubbles') = Len(bubbles)
              /\ n = Len(bubbles)
        /\ (pc /= "split" /\ pc' = "split") => i > Len(bubbles)
        /\ Len(bubbles') /= Len(bubbles) =>
              /\ pc = "split"
              /\ i > Len(bubbles)
              /\ pc' = "idle"
              /\ bubbles' = bubbles \o new_bubbles
        /\ pc' /= "idle" =>
              \A y \in Buffered : new_bubbles'[y] = new_bubbles[y]
        /\ \A y \in Buffered : new_bubbles[y].t = new_bubbles[y].t0
      ]_vars

\* the split pass is running with a new bubble waiting in the side buffer
C3_Witness ==
    /\ pc = "split"
    /\ i <= Len(bubbles)
    /\ Len(new_bubbles) > 0

C5_RemainingWithinEnergy ==
    \A x \in Live : bubbles[x].remaining_energy <= bubbles[x].energy

\* C6: In overlap mode an update never reaches the collision scan or
\* handle_collision, whatever the distances: no remaining_energy and no
\* to_split flag changes, and a speed changes only for the bubble being
\* updated, at its border check, by the sign flips of that check.
C6_OverlapNeverResolves ==
    [][ mode = "overlap" =>
          /\ pc' \notin {"scan", "collide", "debit"}
          /\ Len(bubbles') = Len(bubbles)
          /\ \A x \in Live :
                /\ bubbles'[x].remaining_energy = bubbles[x].remaining_energy
                /\ bubbles'[x].to_split = bubbles[x].to_split
                /\ bubbles'[x].speed /= bubbles[x].speed =>
                      /\ pc = "update"
                      /\ x = i
                      /\ \A axis \in {1, 2} :
                            LET c == bubbles[x].position[axis]
                                       + (clock - bubbles[x].t) * bubbles[x].speed[axis]
                                r == bubbles[x].radius
                            IN bubbles'[x].speed[axis] =
                                  IF c + r >= BorderHigh \/ c - r <= BorderLow
                                  THEN -bubbles[x].speed[axis]
                                  ELSE bubbles[x].speed[axis]
      ]_vars

\* in overlap mode a bubble at zero separation from another one is about to
\* be moved, the scan skipped
C6_Witness ==
    /\ mode = "overlap"
    /\ pc = "move"
    /\ \E x \in Live : x /= i /\ bubbles[x].position = bubbles[i].position

AllBubbles ==
    {bubbles[x] : x \in Live} \cup {new_bubbles[y] : y \in Buffered}

NoContact ==
    \/ mode = "overlap"
    \/ bubbles[i].posNaN
    \/ \A x \in Live :
          \/ x = i
          \/ bubbles[x].posNaN
          \/ (bubbles[i].position[1] - bubbles[x].position[1])
                * (bubbles[i].position[1] - bubbles[x].position[1])
             + (bubbles[i].position[2] - bubbles[x].position[2])
                * (bubbles[i].position[2] - bubbles[x].position[2])
             > (bubbles[i].radius + bubbles[x].radius)
                * (bubbles[i].radius + bubbles[x].radius)

\* the candidate c of a bubble of radius r touches or crosses a border
Hits(c, r) == c + r >= BorderHigh \/ c - r <= BorderLow

\* C8: The border check inverts the speed on an axis exactly when the
\* candidate position + dt * speed touches or crosses a border on that
\* axis, leaving the position alone; and an update in which no other bubble
\* is within reach moves the bubble to position + dt * (speed after the
\* flips), not to the candidate, and sets t to the sampled now.
C8_ReflectThenIntegrate ==
    [][ /\ (pc = "update" /\ pc' \in {"scan", "move"}) =>
              LET b == bubbles[i]
              IN /\ now' = clock
                 /\ bubbles'[i].position = b.position
                 /\ ~b.posNaN => \A axis \in {1, 2} :
                       LET c == b.position[axis] + (clock - b.t) * b.speed[axis]
                       IN /\ new_position'[axis] = c
                          /\ bubbles'[i].speed[axis] =
                                IF Hits(c, b.radius) THEN -b.speed[axis]
                                ELSE b.speed[axis]
        /\ (pc = "move" /\ NoContact /\ ~bubbles[i].posNaN) =>
              LET b == bubbles[i]
              IN /\ bubbles'[i].t = now
                 /\ \A axis \in {1, 2} :
                       bubbles'[i].position[axis] =
                          IF Hits(new_position[axis], b.radius)
                          THEN b.position[axis] - (new_position[axis] - b.position[axis])
                          ELSE new_position[axis]
      ]_vars

\* an update without contact is about to move a bubble whose candidate
\* crossed a border
C8_Witness ==
    /\ pc = "move"
    /\ NoContact
    /\ ~bubbles[i].posNaN
    /\ \E axis \in {1, 2} :
          /\ Hits(new_position[axis], bubbles[i].radius)
          /\ new_position[axis] /= bubbles[i].position[axis]

\* the disc of b lies within the borders
Inside(b) ==
    /\ ~b.posNaN
    /\ \A axis \in {1, 2} :
          /\ BorderLow <= b.position[axis] - b.radius
          /\ b.position[axis] + b.radius <= BorderHigh

\* C9: A bubble whose disc lies within the borders still lies within them
\* after any step of a run.
C9_StaysInside ==
    [][ \A x \in Live : Inside(bubbles[x]) => Inside(bubbles'[x]) ]_vars

\* C10: A resolution subtracts both energy terms from the remaining_energy
\* of the scanning bubble and leaves that of the other bubble alone; a
\* bubble's remaining_energy changes only in its own scan or its own split.
C10_DebitsFallOnScanner ==
    [][ /\ pc = "debit" =>
              /\ bubbles'[i].remaining_energy =
                    bubbles[i].remaining_energy
                       - (IF k = 1 THEN e_transferred_b_a(bubbles[i], bubbles[j])
                          ELSE e_transferred_a_b(bubbles[i], bubbles[j]))
              /\ bubbles'[j].remaining_energy = bubbles[j].remaining_energy
        /\ \A x \in Live :
              bubbles'[x].remaining_energy /= bubbles[x].remaining_energy =>
                 /\ x = i
                 /\ \/ pc = "debit"
                    \/ pc = "split" /\ bubbles[x].to_split
      ]_vars

\* the first term has been subtracted from the scanning bubble and the
\* second is about to be
C10_Witness ==
    /\ pc = "debit"
    /\ k = 2
    /\ bubbles[i].remaining_energy /= bubbles[i].energy
    /\ bubbles[j].remaining_energy = bubbles[j].energy

====
